---- MODULE Spec2Model ----
(***************************************************************************)
(* Model of watchdog/watchdog.py: the Watchdog variants TimeDog and        *)
(* EventDog and the DogHouse registry (adopt, mapping operations, check).  *)
(*                                                                         *)
(* Time is counted in whole clock ticks (timeout_s is annotated int in the *)
(* source); a name is a sequence of one-character strings so that          *)
(* str.lower() is computed character by character.  Every instance in the  *)
(* registry is held under one key only, so an instance is referred to by   *)
(* the key it is stored under.                                             *)
(***************************************************************************)
EXTENDS Integers, Sequences, FiniteSets, TLC

\* ------------------------------------------------------------------ bounds
MaxTime == 1        \* the clock runs over 0..MaxTime
MaxStarve == 1      \* starve() is not called on a counter that reached this
MaxItems == 1       \* pairs handed to one update() call
MaxCalls == 3       \* callback calls after which repeated sweeps stop
MaxThreads == 2     \* calls in progress at the same time

\* ------------------------------------------------------------ input values
\* two names that differ only in letter case: the registry then holds at
\* most two keys, <<"F", "i">> and <<"f", "i">>
Names == { <<"F", "i">>, <<"f", "i">> }
\* timeout_s and max_events: one negative value, and the values the clock
\* and the counter can reach and exceed
TimeoutVals == (-1)..(MaxTime - 1)
EventVals == (-1)..(MaxStarve - 1)
\* an optional argument: <<>> is None, <<v>> is the value v
NoArg == <<>>
Opt(S) == {NoArg} \cup { <<v>> : v \in S }
\* the (timeout_s, max_events) of an adopt call: neither, either one, or a
\* timeout_s together with a max_events of 0
AdoptArgs ==
    (Opt(TimeoutVals) \X {NoArg}) \cup ({NoArg} \X Opt(EventVals))
    \cup ({ <<t>> : t \in TimeoutVals } \X { <<0>> })
\* the reset_function handed to the constructor: None, a truthy object that
\* is not callable, a callback that only records its argument, and a
\* callback that feeds the watchdog it receives
ResetFunctions == {"None", "NotCallable", "Record", "Feed"}

VARIABLES
    dogs,            \* DogHouse.dogs: insertion-ordered dict, a sequence of [key, dog]
    clock,           \* what time.time() returns
    reset_function,  \* DogHouse._reset_function
    last,            \* the last call made on the registry and what it produced
    threads,         \* the calls in progress in concurrent execution contexts
    start            \* the registry as it was when the calls in progress began

vars == <<dogs, clock, reset_function, last, threads, start>>

\* --------------------------------------------------------------- str.lower
LowerChar(c) ==
    CASE c = "F" -> "f"
      [] c = "I" -> "i"
      [] OTHER -> c

_keytransform(key) == [i \in 1..Len(key) |-> LowerChar(key[i])]

\* ------------------------------------------------------------ dict helpers
Keys(d) == { d[i].key : i \in 1..Len(d) }
HasKey(d, k) == k \in Keys(d)
IndexOf(d, k) == CHOOSE i \in 1..Len(d) : d[i].key = k
DictGet(d, k) == d[IndexOf(d, k)].dog
\* d[k] = v: an existing key keeps its position, a new key goes last
DictSet(d, k, v) ==
    IF HasKey(d, k)
    THEN [d EXCEPT ![IndexOf(d, k)] = [key |-> k, dog |-> v]]
    ELSE Append(d, [key |-> k, dog |-> v])
DictDel(d, k) ==
    LET i == IndexOf(d, k)
    IN  [j \in 1..(Len(d) - 1) |-> IF j < i THEN d[j] ELSE d[j + 1]]
\* the instance stored under k after a method call left it as `dog`
OnDog(d, k, dog) == [d EXCEPT ![IndexOf(d, k)].dog = dog]
\* no instance (None)
NoRef == <<>>

\* ---------------------------------------------------------------- Watchdog
TimeDog(name, timeout_s, now) ==
    [kind |-> "TimeDog", name |-> name, active |-> FALSE,
     timeout_s |-> timeout_s, last_feed |-> now]

\* starves_since_feed is no attribute of the class: it counts the starve()
\* calls made since the last feed() (or since construction)
EventDog(name, max_events) ==
    [kind |-> "EventDog", name |-> name, active |-> FALSE,
     max_events |-> max_events, current_events |-> 0,
     starves_since_feed |-> 0]

TimeDog_feed(dog, now) == [dog EXCEPT !.last_feed = now]
TimeDog_starve(dog) == dog
TimeDog_should_bark_ge(dog, now) ==
    IF dog.active
    THEN IF now - dog.last_feed >= dog.timeout_s THEN "True" ELSE "False"
    ELSE "None"
\* the method returns None (no return statement is reached) when inactive
TimeDog_should_bark(dog, now) ==
    IF dog.active
    THEN IF now - dog.last_feed > dog.timeout_s THEN "True" ELSE "False"
    ELSE "None"

EventDog_feed_keep(dog) == dog
EventDog_feed(dog) ==
    [dog EXCEPT !.current_events = 0, !.starves_since_feed = 0]
EventDog_starve_down(dog) ==
    [dog EXCEPT !.current_events = @ - 1, !.starves_since_feed = @ + 1]
EventDog_starve(dog) ==
    [dog EXCEPT !.current_events = @ + 1, !.starves_since_feed = @ + 1]
EventDog_should_bark_ge(dog, now) ==
    IF dog.active
    THEN IF dog.current_events >= dog.max_events THEN "True" ELSE "False"
    ELSE "None"
EventDog_should_bark(dog, now) ==
    IF dog.active
    THEN IF dog.current_events > dog.max_events THEN "True" ELSE "False"
    ELSE "None"

feed(dog, now) ==
    IF dog.kind = "TimeDog" THEN TimeDog_feed(dog, now) ELSE EventDog_feed(dog)
starve(dog) ==
    IF dog.kind = "TimeDog" THEN TimeDog_starve(dog) ELSE EventDog_starve(dog)
should_bark_any(dog, now) ==
    IF dog.kind = "TimeDog"
    THEN TimeDog_should_bark([dog EXCEPT !.active = TRUE], now)
    ELSE EventDog_should_bark([dog EXCEPT !.active = TRUE], now)
should_bark(dog, now) ==
    IF dog.kind = "TimeDog" THEN TimeDog_should_bark(dog, now)
    ELSE EventDog_should_bark(dog, now)
\* the watchdog after should_bark(now) has returned: neither should_bark
\* assigns to a field of self
should_bark_self_fed(dog, now) ==
    IF should_bark(dog, now) = "True" THEN feed(dog, now) ELSE dog
should_bark_self(dog, now) == dog
send_to_kennel(dog) == [dog EXCEPT !.active = FALSE]
send_to_home_nofeed(dog, now) == [dog EXCEPT !.active = TRUE]
send_to_home(dog, now) == [feed(dog, now) EXCEPT !.active = TRUE]

\* Python truth value of what should_bark returns
Truthy(v) == v = "True"
\* `self._reset_function and callable(self._reset_function)`
Callable_truthy(f) == f # "None"
Callable(f) == f \in {"Record", "Feed"}
\* `self._reset_function is None or not callable(self._reset_function)`
NoResetFunction(f) == f = "None" \/ f \notin {"Record", "Feed"}

\* -------------------------------------------------- what `last` looks like
\* the staleness or failure signal of a watchdog, whatever its active flag
Unhealthy(dog, now) ==
    IF dog.kind = "TimeDog" THEN now > dog.last_feed + dog.timeout_s
    ELSE dog.current_events > dog.max_events

\* op: the call; key: its name argument; ret: the key of the instance it
\* returned; err: the exception it raised; again: an adopt that follows a
\* successful adopt of the same name, or a check() that follows a check()
\* which logged the same watchdog; stale: the watchdog activated was past
\* its timeout or over its event budget; called, logged, evald: the
\* callback's arguments, the keys logged as starved and the keys whose
\* watchdog check() evaluated; warned: adopt logged 'No reset function is
\* set'; both: adopt created a watchdog from a call that gave timeout_s and
\* max_events
Quiet == [op |-> "other", key |-> <<>>, ret |-> <<>>, err |-> "",
          again |-> FALSE, stale |-> FALSE, warned |-> FALSE, both |-> FALSE,
          called |-> <<>>, logged |-> <<>>, evald |-> <<>>]

\* ------------------------------------------------------------------- adopt
\* DogHouse.adopt: the registry afterwards, the key of the instance
\* returned and the exception raised ("" when none)
adopt_overwrite(d, name, timeout_s, max_events, now) ==
    IF timeout_s # NoArg
    THEN [dogs |-> DictSet(d, name, TimeDog(name, timeout_s[1], now)),
          ret |-> name, err |-> ""]
    ELSE IF max_events # NoArg
    THEN [dogs |-> DictSet(d, name, EventDog(name, max_events[1])),
          ret |-> name, err |-> ""]
    ELSE IF HasKey(d, name)
    THEN [dogs |-> d, ret |-> name, err |-> ""]
    ELSE [dogs |-> d, ret |-> NoRef, err |-> "ValueError"]
adopt_noraise(d, name, timeout_s, max_events, now) ==
    IF HasKey(d, name)
    THEN [dogs |-> d, ret |-> name, err |-> ""]
    ELSE IF timeout_s # NoArg
    THEN [dogs |-> DictSet(d, name, TimeDog(name, timeout_s[1], now)),
          ret |-> name, err |-> ""]
    ELSE IF max_events # NoArg
    THEN [dogs |-> DictSet(d, name, EventDog(name, max_events[1])),
          ret |-> name, err |-> ""]
    ELSE [dogs |-> d, ret |-> NoRef, err |-> ""]
adopt_events_first(d, name, timeout_s, max_events, now) ==
    IF HasKey(d, name)
    THEN [dogs |-> d, ret |-> name, err |-> ""]
    ELSE IF max_events # NoArg
    THEN [dogs |-> DictSet(d, name, EventDog(name, max_events[1])),
          ret |-> name, err |-> ""]
    ELSE IF timeout_s # NoArg
    THEN [dogs |-> DictSet(d, name, TimeDog(name, timeout_s[1], now)),
          ret |-> name, err |-> ""]
    ELSE [dogs |-> d, ret |-> NoRef, err |-> "ValueError"]
adopt(d, name, timeout_s, max_events, now) ==
    IF HasKey(d, name)
    THEN [dogs |-> d, ret |-> name, err |-> ""]
    ELSE IF timeout_s # NoArg
    THEN [dogs |-> DictSet(d, name, TimeDog(name, timeout_s[1], now)),
          ret |-> name, err |-> ""]
    ELSE IF max_events # NoArg
    THEN [dogs |-> DictSet(d, name, EventDog(name, max_events[1])),
          ret |-> name, err |-> ""]
    ELSE [dogs |-> d, ret |-> NoRef, err |-> "ValueError"]

Adopt(name, timeout_s, max_events) ==
    LET r == adopt(dogs, name, timeout_s, max_events, clock)
    IN  /\ dogs' = r.dogs
        /\ last' = [Quiet EXCEPT !.op = "adopt", !.key = name,
                                 !.ret = r.ret, !.err = r.err,
                                 !.again = /\ last.op = "adopt"
                                           /\ last.key = name
                                           /\ last.err = "",
                                 !.warned = NoResetFunction(reset_function),
                                 !.both = /\ ~HasKey(dogs, name)
                                          /\ timeout_s # NoArg
                                          /\ max_events # NoArg]
        /\ UNCHANGED <<threads, start, clock, reset_function>>

\* ------------------------------------------------------ mapping operations
\* a Watchdog handed to the registry by the caller: a new instance of
\* either kind, built with the key it will be stored under as its name
Values == { [kind |-> "TimeDog", arg |-> 0], [kind |-> "EventDog", arg |-> 0] }

Construct(v, name, now) ==
    IF v.kind = "TimeDog" THEN TimeDog(name, v.arg, now)
    ELSE EventDog(name, v.arg)

__getitem__(d, key) ==
    IF HasKey(d, _keytransform(key))
    THEN [ret |-> _keytransform(key), err |-> ""]
    ELSE [ret |-> NoRef, err |-> "KeyError"]

__setitem__(d, key, value) == DictSet(d, _keytransform(key), value)

__delitem__(d, key) ==
    IF HasKey(d, _keytransform(key))
    THEN [dogs |-> DictDel(d, _keytransform(key)), err |-> ""]
    ELSE [dogs |-> d, err |-> "KeyError"]

GetItem(key) ==
    LET r == __getitem__(dogs, key)
    IN  /\ last' = [Quiet EXCEPT !.op = "get", !.key = key,
                                 !.ret = r.ret, !.err = r.err]
        /\ UNCHANGED <<threads, start, dogs, clock, reset_function>>

SetItem(key, v) ==
    LET d == __setitem__(dogs, key, Construct(v, _keytransform(key), clock))
    IN  /\ dogs' = d
        /\ last' = Quiet
        /\ UNCHANGED <<threads, start, clock, reset_function>>

DelItem(key) ==
    LET r == __delitem__(dogs, key)
    IN  /\ dogs' = r.dogs
        /\ last' = [Quiet EXCEPT !.op = "del", !.key = key, !.err = r.err]
        /\ UNCHANGED <<threads, start, clock, reset_function>>

\* the three loops of update() over `other` and the loop over kwargs all
\* run `self.dogs[key] = value` on each pair in turn
RECURSIVE update(_, _)
update(d, items) ==
    IF items = <<>> THEN d
    ELSE update(DictSet(d, items[1].key, items[1].value), Tail(items))

\* the pairs update() goes through, those of `other` and then those of
\* kwargs; a key may come twice (in an iterable of pairs, or once in `other`
\* and once in kwargs)
Items(n, now) ==
    { [i \in 1..n |-> [key |-> ks[i], value |-> Construct(vs[i], ks[i], now)]] :
          ks \in [1..n -> Names], vs \in [1..n -> Values] }

Update(items) ==
    LET d == update(dogs, items)
    IN  /\ dogs' = d
        /\ last' = Quiet
        /\ UNCHANGED <<threads, start, clock, reset_function>>

\* ------------------------------------------------- calls on one watchdog
Feed(k) ==
    /\ dogs' = OnDog(dogs, k, feed(DictGet(dogs, k), clock))
    /\ last' = Quiet
    /\ UNCHANGED <<threads, start, clock, reset_function>>

Starve(k) ==
    /\ DictGet(dogs, k).kind = "EventDog"
           => DictGet(dogs, k).current_events < MaxStarve
    /\ dogs' = OnDog(dogs, k, starve(DictGet(dogs, k)))
    /\ last' = Quiet
    /\ UNCHANGED <<threads, start, clock, reset_function>>

Activate(k) ==
    /\ dogs' = OnDog(dogs, k, send_to_home(DictGet(dogs, k), clock))
    /\ last' = [Quiet EXCEPT !.op = "activate", !.key = k,
                             !.stale = Unhealthy(DictGet(dogs, k), clock)]
    /\ UNCHANGED <<threads, start, clock, reset_function>>

Deactivate(k) ==
    /\ dogs' = OnDog(dogs, k, send_to_kennel(DictGet(dogs, k)))
    /\ last' = Quiet
    /\ UNCHANGED <<threads, start, clock, reset_function>>

\* ------------------------------------------------------------------- check
\* self._reset_function(watchdog), for the watchdog at position i
Reset(f, d, i, now) ==
    IF f = "Feed" THEN [d EXCEPT ![i].dog = feed(@, now)] ELSE d

\* the registry once the watchdog at position i has answered should_bark
Asked(d, i, now) == [d EXCEPT ![i].dog = should_bark_self(@, now)]

\* the for loop of check() from position i on: the registry afterwards,
\* the callback's arguments, the keys logged as starved and the keys whose
\* watchdog was asked should_bark
RECURSIVE check_loop(_, _, _, _)
check_loop(d, f, now, i) ==
    IF i > Len(d)
    THEN [dogs |-> d, called |-> <<>>, logged |-> <<>>, evald |-> <<>>]
    ELSE IF Truthy(should_bark(d[i].dog, now))
    THEN [dogs |-> IF Callable(f) THEN Reset(f, Asked(d, i, now), i, now)
                   ELSE Asked(d, i, now),
          called |-> IF Callable(f) THEN <<d[i].key>> ELSE <<>>,
          logged |-> <<d[i].key>>,
          evald |-> <<d[i].key>>]
    ELSE LET r == check_loop(Asked(d, i, now), f, now, i + 1)
         IN  [r EXCEPT !.evald = <<d[i].key>> \o @]

\* the loop without its break
RECURSIVE check_loop_nobreak(_, _, _, _)
check_loop_nobreak(d, f, now, i) ==
    IF i > Len(d)
    THEN [dogs |-> d, called |-> <<>>, logged |-> <<>>, evald |-> <<>>]
    ELSE IF Truthy(should_bark(d[i].dog, now))
    THEN LET r == check_loop_nobreak(
                      IF Callable(f) THEN Reset(f, d, i, now) ELSE d,
                      f, now, i + 1)
         IN  [dogs |-> r.dogs,
              called |-> (IF Callable(f) THEN <<d[i].key>> ELSE <<>>) \o r.called,
              logged |-> <<d[i].key>> \o r.logged,
              evald |-> <<d[i].key>> \o r.evald]
    ELSE LET r == check_loop_nobreak(d, f, now, i + 1)
         IN  [r EXCEPT !.evald = <<d[i].key>> \o @]
check_nobreak(d, f, now) == check_loop_nobreak(d, f, now, 1)
\* the watchdog reported is sent to the kennel
check_once(d, f, now) ==
    LET r == check_loop(d, f, now, 1)
    IN  IF r.logged = <<>> THEN r
        ELSE [r EXCEPT !.dogs = OnDog(r.dogs, r.logged[1],
                                   send_to_kennel(DictGet(r.dogs, r.logged[1])))]
check(d, f, now) == check_loop(d, f, now, 1)

Check ==
    LET r == check(dogs, reset_function, clock)
    IN  /\ dogs' = r.dogs
        /\ last' = [Quiet EXCEPT !.op = "check", !.called = r.called,
                                 !.logged = r.logged, !.evald = r.evald,
                                 !.again = /\ last.op = "check"
                                           /\ r.logged # <<>>
                                           /\ last.logged = r.logged]
        /\ UNCHANGED <<threads, start, clock, reset_function>>

\* ------------------------------------------------------------------- clock
Tick ==
    /\ clock < MaxTime
    /\ clock' = clock + 1
    /\ last' = Quiet
    /\ UNCHANGED <<threads, start, dogs, reset_function>>

\* ----------------------------------------------------------- specification
\* DogHouse(reset_function, **kwargs): the keyword arguments go through
\* update() as one mapping
__init__(f, kwargs) ==
    /\ dogs = update(<<>>, kwargs)
    /\ clock = 0
    /\ reset_function = f
    /\ last = [Quiet EXCEPT !.op = "init"]
    /\ threads = <<>>
    /\ start = <<>>

Init ==
    \E f \in ResetFunctions :
        \E n \in 0..MaxItems :
            \E kwargs \in Items(n, 0) :
                /\ \A i, j \in 1..n : kwargs[i].key = kwargs[j].key => i = j
                /\ __init__(f, kwargs)

Next ==
    \/ \E name \in Names, a \in AdoptArgs : Adopt(name, a[1], a[2])
    \/ \E key \in Names : GetItem(key)
    \/ \E key \in Names, v \in Values : SetItem(key, v)
    \/ \E key \in Names : DelItem(key)
    \/ \E n \in 1..MaxItems : \E items \in Items(n, clock) : Update(items)
    \/ \E k \in Keys(dogs) : Feed(k)
    \/ \E k \in Keys(dogs) : Starve(k)
    \/ \E k \in Keys(dogs) : Activate(k)
    \/ \E k \in Keys(dogs) : Deactivate(k)
    \/ Check
    \/ Tick

Spec == Init /\ [][Next]_vars

\* ================================================================== claims
Times == 0..MaxTime
Barks(d, i, now) == Truthy(should_bark(d[i].dog, now))
\* the position of the first watchdog in insertion order that barks, or 0
FirstBarker(d, now) ==
    IF \E i \in 1..Len(d) : Barks(d, i, now)
    THEN CHOOSE i \in 1..Len(d) :
             Barks(d, i, now) /\ \A j \in 1..(i - 1) : ~Barks(d, j, now)
    ELSE 0
KeysUpTo(d, n) == [i \in 1..n |-> d[i].key]

\* C1: in every state, a check() call made there calls the recovery
\* callback at most once, with the first watchdog in insertion order that
\* barks at the sweep's timestamp, and evaluates no watchdog after that one.
C1_FirstBarkerOnly ==
    LET r == check(dogs, reset_function, clock)
        b == FirstBarker(dogs, clock)
    IN  /\ Len(r.called) <= 1
        /\ b = 0 => /\ r.called = <<>>
                    /\ r.evald = KeysUpTo(dogs, Len(dogs))
        /\ b > 0 => /\ Callable(reset_function) => r.called = <<dogs[b].key>>
                    /\ r.evald = KeysUpTo(dogs, b)

\* a check() called the callback with the first watchdog while the second
\* one barks as well
C1_Witness ==
    /\ last.op = "check"
    /\ Len(dogs) = 2
    /\ last.called = <<dogs[1].key>>
    /\ last.evald = <<dogs[1].key>>
    /\ Barks(dogs, 2, clock)

\* C2: right after an adopt of a name, a second adopt of the same name, with
\* any arguments, returns the instance the first adopt returned and leaves
\* the registry, its length and every watchdog as they were.
C2_AdoptIdempotent ==
    (last.op = "adopt" /\ last.err = "")
    => \A a \in AdoptArgs :
           LET r == adopt(dogs, last.key, a[1], a[2], clock)
           IN  /\ r.err = ""
               /\ r.ret = last.ret
               /\ r.dogs = dogs
               /\ Len(r.dogs) = Len(dogs)

\* the same name was adopted twice in a row and the registry has length 1
C2_Witness ==
    /\ last.op = "adopt"
    /\ last.again
    /\ Len(dogs) = 1
    /\ last.ret = dogs[1].key

\* C3: adopting two names that differ only in letter case (each with a
\* timeout_s or a max_events) yields one entry, and the second adopt returns
\* the watchdog the first one created.
C3_AdoptCaseInsensitive ==
    [][\A name \in Names, a \in AdoptArgs :
          (/\ last.op = "adopt"
           /\ last.err = ""
           /\ _keytransform(last.key) = _keytransform(name)
           /\ a[1] # NoArg \/ a[2] # NoArg
           /\ Adopt(name, a[1], a[2]))
          => /\ last'.ret = last.ret
             /\ dogs' = dogs]_vars

\* C4: every key stored in the registry is in lower case.
C4_KeysNormalized == \A k \in Keys(dogs) : k = _keytransform(k)

\* C5 as stated: in every registry state, adopt(name) with neither timeout_s
\* nor max_events fails with the configuration error and changes nothing.
C5_NeitherAlwaysFails ==
    \A name \in Names :
        LET r == adopt(dogs, name, NoArg, NoArg, clock)
        IN  /\ r.dogs = dogs
            /\ r.err = "ValueError"

\* C5 amended: in every registry state, adopt(name) with neither timeout_s
\* nor max_events leaves the registry unchanged; it fails with the
\* configuration error when name is not a key of the registry, and returns
\* the watchdog stored under name, without failing, when it is.
C5_NeitherFailsUnlessAdopted ==
    \A name \in Names :
        LET r == adopt(dogs, name, NoArg, NoArg, clock)
        IN  /\ r.dogs = dogs
            /\ name \in Keys(dogs) => r.err = "" /\ r.ret = name
            /\ name \notin Keys(dogs) => r.err = "ValueError" /\ r.ret = NoRef

\* adopt failed with the configuration error on a registry holding a
\* watchdog under another key
C5_Witness ==
    /\ last.op = "adopt"
    /\ last.err = "ValueError"
    /\ Len(dogs) = 1
    /\ ~HasKey(dogs, last.key)

\* C6: a TimeDog barks at `now` exactly when it is active and
\* now > last_feed + timeout_s: not at now = last_feed + timeout_s.
C6_TimeDogStrict ==
    \A i \in 1..Len(dogs) : \A now \in Times :
        dogs[i].dog.kind = "TimeDog"
        => /\ Truthy(should_bark(dogs[i].dog, now))
                <=> (dogs[i].dog.active
                     /\ now > dogs[i].dog.last_feed + dogs[i].dog.timeout_s)
           /\ (dogs[i].dog.active
                /\ now <= dogs[i].dog.last_feed + dogs[i].dog.timeout_s)
                => should_bark(dogs[i].dog, now) = "False"

\* check() evaluated an active TimeDog exactly timeout_s after its last
\* feed and did not report it
C6_Witness ==
    /\ last.op = "check"
    /\ \E i \in 1..Len(dogs) :
           /\ dogs[i].dog.kind = "TimeDog"
           /\ dogs[i].dog.active
           /\ dogs[i].dog.timeout_s >= 0
           /\ clock = dogs[i].dog.last_feed + dogs[i].dog.timeout_s
           /\ \E j \in 1..Len(last.evald) : last.evald[j] = dogs[i].key
           /\ last.logged = <<>>

\* C7: an EventDog barks exactly when it is active and
\* current_events > max_events; with max_events = n >= 0 an active one does
\* not bark after n starve() calls since its last feed and barks after n+1.
C7_EventDogExceeds ==
    \A i \in 1..Len(dogs) : \A now \in Times :
        dogs[i].dog.kind = "EventDog"
        => /\ Truthy(should_bark(dogs[i].dog, now))
                <=> (dogs[i].dog.active
                     /\ dogs[i].dog.current_events > dogs[i].dog.max_events)
           /\ (/\ dogs[i].dog.active
                /\ dogs[i].dog.max_events >= 0
                /\ dogs[i].dog.starves_since_feed = dogs[i].dog.max_events)
                => should_bark(dogs[i].dog, now) = "False"
           /\ (/\ dogs[i].dog.active
                /\ dogs[i].dog.max_events >= 0
                /\ dogs[i].dog.starves_since_feed = dogs[i].dog.max_events + 1)
                => should_bark(dogs[i].dog, now) = "True"

\* check() reported an active EventDog that was starved max_events + 1 times
C7_Witness ==
    /\ last.op = "check"
    /\ \E i \in 1..Len(dogs) :
           /\ dogs[i].dog.kind = "EventDog"
           /\ dogs[i].dog.active
           /\ dogs[i].dog.max_events >= 0
           /\ dogs[i].dog.starves_since_feed = dogs[i].dog.max_events + 1
           /\ last.logged = <<dogs[i].key>>

\* C8: an inactive watchdog does not bark at any time, whatever its counter
\* or timestamp, and check() neither logs it nor passes it to the callback.
C8_InactiveNeverBarks ==
    /\ \A i \in 1..Len(dogs) : \A now \in Times :
           ~dogs[i].dog.active => ~Truthy(should_bark(dogs[i].dog, now))
    /\ last.op = "check"
           => /\ \A j \in 1..Len(last.called) :
                     DictGet(dogs, last.called[j]).active
              /\ \A j \in 1..Len(last.logged) :
                     DictGet(dogs, last.logged[j]).active

\* check() evaluated an inactive EventDog over its budget and an inactive
\* TimeDog past its timeout, and reported nothing
C8_Witness ==
    /\ last.op = "check"
    /\ Len(dogs) = 2
    /\ last.evald = KeysUpTo(dogs, 2)
    /\ last.logged = <<>>
    /\ last.called = <<>>
    /\ \E i, j \in 1..2 :
           /\ dogs[i].dog.kind = "EventDog"
           /\ dogs[j].dog.kind = "TimeDog"
           /\ ~dogs[i].dog.active
           /\ ~dogs[j].dog.active
           /\ Unhealthy(dogs[i].dog, clock)
           /\ Unhealthy(dogs[j].dog, clock)

\* C9: right after activate() the watchdog is active and fed (current_events
\* is 0, last_feed is the activation time), and with timeout_s >= 0 or
\* max_events >= 0 it does not bark at the activation time.
C9_ActivateFeeds ==
    last.op = "activate"
    => LET dog == DictGet(dogs, last.key)
       IN  /\ dog.active
           /\ dog.kind = "TimeDog"
                  => /\ dog.last_feed = clock
                     /\ dog.timeout_s >= 0 => ~Truthy(should_bark(dog, clock))
           /\ dog.kind = "EventDog"
                  => /\ dog.current_events = 0
                     /\ dog.max_events >= 0 => ~Truthy(should_bark(dog, clock))

\* a watchdog with a non-negative threshold was activated while stale
C9_Witness ==
    /\ last.op = "activate"
    /\ last.stale
    /\ LET dog == DictGet(dogs, last.key)
       IN  IF dog.kind = "TimeDog" THEN dog.timeout_s >= 0
           ELSE dog.max_events >= 0

\* C10 as stated: in every state, a check() made there reports (logs, and
\* passes to the callback when one is configured) every registered watchdog
\* that barks, whatever other watchdogs are registered.
C10_EveryBarkerReported ==
    LET r == check(dogs, reset_function, clock)
    IN  \A i \in 1..Len(dogs) :
            Barks(dogs, i, clock)
            => /\ \E j \in 1..Len(r.logged) : r.logged[j] = dogs[i].key
               /\ Callable(reset_function)
                      => \E j \in 1..Len(r.called) : r.called[j] = dogs[i].key

\* C10 amended: in every state, a check() made there reports (logs, and
\* passes to the callback when one is configured) the first watchdog in
\* insertion order that barks, and changes no watchdog unless the callback
\* does; so a starved watchdog is reported again on every later check() for
\* as long as it barks and no watchdog before it in insertion order barks.
C10_FirstBarkerReportedAgain ==
    LET r == check(dogs, reset_function, clock)
        b == FirstBarker(dogs, clock)
    IN  /\ b > 0 => /\ r.logged = <<dogs[b].key>>
                    /\ Callable(reset_function) => r.called = <<dogs[b].key>>
        /\ b = 0 => r.logged = <<>>
        /\ reset_function # "Feed" => r.dogs = dogs

\* two check() calls in a row reported the same watchdog to a callback that
\* does not feed it
C10_Witness ==
    /\ last.op = "check"
    /\ last.again
    /\ reset_function = "Record"
    /\ last.called = last.logged

\* C11: with no callback, or one that is not callable, adopt still creates
\* and returns the watchdog (after a warning), and check() logs the first
\* watchdog that barks, calls nothing and leaves the registry and every
\* watchdog as they were.
C11_NoCallbackNoFailure ==
    NoResetFunction(reset_function)
    => /\ \A name \in Names, a \in AdoptArgs :
              (a[1] # NoArg \/ a[2] # NoArg)
              => LET r == adopt(dogs, name, a[1], a[2], clock)
                 IN  /\ r.err = ""
                     /\ r.ret = name
                     /\ HasKey(r.dogs, name)
       /\ (last.op = "adopt" /\ last.err = "")
              => (last.warned /\ HasKey(dogs, last.ret))
       /\ LET r == check(dogs, reset_function, clock)
              b == FirstBarker(dogs, clock)
          IN  /\ r.called = <<>>
              /\ r.dogs = dogs
              /\ r.logged = IF b = 0 THEN <<>> ELSE <<dogs[b].key>>

\* a check() of a registry whose callback is not callable logged a watchdog
\* and called nothing
C11_Witness ==
    /\ reset_function = "NotCallable"
    /\ last.op = "check"
    /\ last.logged # <<>>
    /\ last.called = <<>>

\* C14: should_bark leaves the watchdog it is asked on as it was, so a
\* check() whose callback does nothing (or that has none) leaves the
\* registry and every watchdog as they were, at any time of the clock.
C14_ShouldBarkPure ==
    /\ \A i \in 1..Len(dogs), now \in Times :
           should_bark_self(dogs[i].dog, now) = dogs[i].dog
    /\ \A f \in ResetFunctions \ {"Feed"}, now \in Times :
           check(dogs, f, now).dogs = dogs

\* a check() with a callback that does nothing asked two watchdogs and the
\* second one barked
C14_Witness ==
    /\ reset_function = "Record"
    /\ last.op = "check"
    /\ Len(last.evald) = 2
    /\ last.called = <<last.evald[2]>>

\* C15 as stated: a check() never changes the current_events of an EventDog.
C15_CheckNeverChanges ==
    \A i \in 1..Len(dogs) :
        dogs[i].dog.kind = "EventDog"
        => check(dogs, reset_function, clock).dogs[i].dog.current_events
               = dogs[i].dog.current_events

\* C15: an EventDog's current_events is a natural number, 0 at creation;
\* feed and activate set it to 0, starve adds exactly 1, deactivate leaves
\* it, and check() leaves it unless the callback feeds the watchdog it is
\* handed, which sets it to 0.
C15_CurrentEventsCounts ==
    /\ \A name \in Names, m \in EventVals :
           EventDog(name, m).current_events = 0
    /\ \A i \in 1..Len(dogs) :
           dogs[i].dog.kind = "EventDog"
           => LET dog == dogs[i].dog
                  c == dog.current_events
              IN  /\ c \in Nat
                  /\ feed(dog, clock).current_events = 0
                  /\ send_to_home(dog, clock).current_events = 0
                  /\ starve(dog).current_events = c + 1
                  /\ send_to_kennel(dog).current_events = c
                  /\ \A f \in ResetFunctions :
                         LET r == check(dogs, f, clock)
                         IN  r.dogs[i].dog.current_events =
                                 IF f = "Feed" /\ r.called = <<dogs[i].key>>
                                 THEN 0 ELSE c

\* an EventDog that was starved and not fed since
C15_Witness ==
    \E i \in 1..Len(dogs) :
        /\ dogs[i].dog.kind = "EventDog"
        /\ dogs[i].dog.current_events > 0
        /\ dogs[i].dog.starves_since_feed = dogs[i].dog.current_events

\* C16: adopt of a name that is not a key of the registry, given both a
\* timeout_s and a max_events, raises nothing and registers a TimeDog with
\* that timeout_s under the name.
C16_BothArgsTimeDog ==
    \A name \in Names, t \in TimeoutVals, m \in EventVals :
        ~HasKey(dogs, name)
        => LET r == adopt(dogs, name, <<t>>, <<m>>, clock)
           IN  /\ r.err = ""
               /\ r.ret = name
               /\ Len(r.dogs) = Len(dogs) + 1
               /\ DictGet(r.dogs, name) = TimeDog(name, t, clock)

\* an adopt given both arguments created a TimeDog
C16_Witness ==
    /\ last.op = "adopt"
    /\ last.both
    /\ last.err = ""
    /\ DictGet(dogs, last.key).kind = "TimeDog"

\* C17: right after a successful adopt of a name, the registry's item for
\* that name is the adopted watchdog, and deleting the item of that name
\* removes it, so that a check() no longer asks it.
C17_AdoptAgreesWithMapping ==
    (last.op = "adopt" /\ last.err = "")
    => LET g == __getitem__(dogs, last.key)
           r == __delitem__(dogs, last.key)
       IN  /\ g.err = ""
           /\ g.ret = last.ret
           /\ r.err = ""
           /\ ~HasKey(r.dogs, last.ret)
           /\ \A j \in DOMAIN check(r.dogs, reset_function, clock).evald :
                  check(r.dogs, reset_function, clock).evald[j] # last.ret

\* ------------------------------------------------ repeated sweeps (C18)
\* A registry of active EventDogs under a callback that feeds the watchdog
\* it is handed; the program only calls check(), again and again, while
\* time passes.  `start` keeps the registry the sweeps began with, and
\* last.called and last.logged accumulate over the sweeps.

\* an EventDog adopted at time 0, activated, then starved c times
RECURSIVE Hungry(_, _, _)
Hungry(name, max_events, c) ==
    IF c = 0 THEN send_to_home(EventDog(name, max_events), 0)
    ELSE starve(Hungry(name, max_events, c - 1))

SweepInit ==
    /\ \E n \in 1..Cardinality(Names) :
       \E ks \in [1..n -> Names], ms \in [1..n -> EventVals],
          cs \in [1..n -> 0..MaxStarve] :
           /\ \A i, j \in 1..n : ks[i] = ks[j] => i = j
           /\ dogs = [i \in 1..n |->
                         [key |-> ks[i], dog |-> Hungry(ks[i], ms[i], cs[i])]]
    /\ start = dogs
    /\ clock = 0
    /\ reset_function = "Feed"
    /\ last = [Quiet EXCEPT !.op = "init"]
    /\ threads = <<>>

\* one more check(); the sweeps stop once the callback was called MaxCalls
\* times
SweepCheck ==
    /\ Len(last.called) < MaxCalls
    /\ LET r == check(dogs, reset_function, clock)
       IN  /\ dogs' = r.dogs
           /\ last' = [last EXCEPT !.op = "check",
                                   !.called = @ \o r.called,
                                   !.logged = @ \o r.logged,
                                   !.evald = r.evald]
    /\ UNCHANGED <<threads, start, clock, reset_function>>

SweepTick ==
    /\ clock < MaxTime
    /\ clock' = clock + 1
    /\ UNCHANGED <<threads, start, dogs, reset_function, last>>

SweepNext == SweepCheck \/ SweepTick

\* check() is called again and again
SpecSweep == SweepInit /\ [][SweepNext]_vars /\ WF_vars(SweepCheck)

IsPrefix(s, t) ==
    /\ Len(s) <= Len(t)
    /\ \A i \in 1..Len(s) : s[i] = t[i]

\* the keys of the watchdogs of d that bark at `now`, in insertion order
RECURSIVE BarkingKeys(_, _)
BarkingKeys(d, now) ==
    IF d = <<>> THEN <<>>
    ELSE (IF Truthy(should_bark(d[1].dog, now)) THEN <<d[1].key>> ELSE <<>>)
         \o BarkingKeys(Tail(d), now)

\* C18 as stated: whatever the max_events of the watchdogs, the callback is
\* handed the watchdogs that were unhealthy at the start, once each and in
\* insertion order, and nothing else.
C18_EachPassedOnce == IsPrefix(last.called, BarkingKeys(start, 0))

\* C18: when every max_events is 0 or more, each sweep hands the callback at
\* most one watchdog, what the callback was handed so far is a prefix of the
\* watchdogs unhealthy at the start in insertion order, and eventually it
\* was handed all of them, no watchdog barks and check() never calls the
\* callback again.
C18_SweepsRecoverAll ==
    (\A i \in 1..Len(start) : start[i].dog.max_events >= 0)
    => /\ [](/\ IsPrefix(last.called, BarkingKeys(start, 0))
             /\ Len(check(dogs, reset_function, clock).called) <= 1)
       /\ <>[](/\ last.called = BarkingKeys(start, 0)
               /\ BarkingKeys(dogs, clock) = <<>>
               /\ check(dogs, reset_function, clock).called = <<>>)

\* two watchdogs over a budget of 0 or more were handed to the callback, the
\* first one first, and both are healthy
C18_Witness ==
    /\ Len(start) = 2
    /\ \A i \in 1..2 : start[i].dog.max_events >= 0
    /\ Len(BarkingKeys(start, 0)) = 2
    /\ last.called = <<start[1].key, start[2].key>>
    /\ BarkingKeys(dogs, clock) = <<>>

\* ------------------------------------------- concurrent calls (C12, C13, C19)
\* MaxThreads execution contexts each make one call, on the first watchdog
\* of the registry (starve, feed, send_to_home) or on the registry (check),
\* while time passes.  The source takes no lock, so a call is a sequence of
\* steps, one per read or write of shared state, and the steps of different
\* calls interleave in every order.

Threads == 1..MaxThreads
CallRank(c) ==
    CASE c = "starve" -> 1 [] c = "feed" -> 2
      [] c = "send_to_home" -> 3 [] c = "check" -> 4
Calls == {"starve", "feed", "send_to_home", "check"}

\* a call not begun yet.  read: the current_events starve() loaded; now, i:
\* the locals of check(); fed_at: the clock when send_to_home fed; live: the
\* send_to_home calls not finished when check() took its timestamp; called,
\* evald: as in `last`; nows: the `now` handed to each should_bark; late:
\* the clock had moved on from check()'s timestamp when the last should_bark
\* was called; compared: the keys of the watchdogs whose should_bark went
\* past `if self.active`
NewCall(c) ==
    [call |-> c, pc |-> "start", read |-> 0, now |-> 0, i |-> 0,
     fed_at |-> 0, live |-> {}, called |-> <<>>, evald |-> <<>>,
     nows |-> <<>>, late |-> FALSE, compared |-> <<>>]

\* the watchdog the method calls are made on: adopted one tick before the
\* calls begin, of either kind, active or not, starved c times
FirstDogs(name) ==
    { [TimeDog(name, t, -1) EXCEPT !.active = a] :
          t \in TimeoutVals, a \in BOOLEAN }
    \cup { [EventDog(name, m) EXCEPT !.active = a, !.current_events = c,
                                     !.starves_since_feed = c] :
               m \in EventVals, c \in 0..MaxStarve, a \in BOOLEAN }

ConcInit ==
    /\ \E d1 \in FirstDogs(<<"F", "i">>) :
           \/ dogs = << [key |-> <<"F", "i">>, dog |-> d1] >>
           \/ dogs = << [key |-> <<"F", "i">>, dog |-> d1],
                        [key |-> <<"f", "i">>,
                         dog |-> Hungry(<<"f", "i">>, 0, MaxStarve)] >>
    /\ start = dogs
    /\ clock = 0
    /\ reset_function = "Record"
    /\ last = Quiet
    /\ \E cs \in [Threads -> Calls] :
           /\ \A t, u \in Threads :
                  t <= u => CallRank(cs[t]) <= CallRank(cs[u])
           /\ threads = [t \in Threads |-> NewCall(cs[t])]

\* `self.current_events += 1` is a load of the attribute, an addition and a
\* store of the attribute
EventDog_starve_store(dog, read) ==
    [dog EXCEPT !.current_events = read + 1, !.starves_since_feed = @ + 1]

StarveLoad(t) ==
    /\ threads[t].call = "starve" /\ threads[t].pc = "start"
    /\ dogs[1].dog.kind = "EventDog"
    /\ threads' = [threads EXCEPT ![t].read = dogs[1].dog.current_events,
                                  ![t].pc = "store"]
    /\ UNCHANGED <<dogs, clock, reset_function, last, start>>

StarveStore(t) ==
    /\ threads[t].call = "starve" /\ threads[t].pc = "store"
    /\ dogs' = [dogs EXCEPT
                   ![1].dog = EventDog_starve_store(@, threads[t].read)]
    /\ threads' = [threads EXCEPT ![t].pc = "done"]
    /\ UNCHANGED <<clock, reset_function, last, start>>

\* TimeDog.starve: pass
StarvePass(t) ==
    /\ threads[t].call = "starve" /\ threads[t].pc = "start"
    /\ dogs[1].dog.kind = "TimeDog"
    /\ dogs' = [dogs EXCEPT ![1].dog = starve(@)]
    /\ threads' = [threads EXCEPT ![t].pc = "done"]
    /\ UNCHANGED <<clock, reset_function, last, start>>

FeedCall(t) ==
    /\ threads[t].call = "feed" /\ threads[t].pc = "start"
    /\ dogs' = [dogs EXCEPT ![1].dog = feed(@, clock)]
    /\ threads' = [threads EXCEPT ![t].pc = "done"]
    /\ UNCHANGED <<clock, reset_function, last, start>>

\* send_to_home: `self.feed()`, then `self.active = True`
send_to_home_step_flag_first(dog, step, now) ==
    IF step = 1 THEN [dog EXCEPT !.active = TRUE] ELSE feed(dog, now)
send_to_home_step(dog, step, now) ==
    IF step = 1 THEN feed(dog, now) ELSE [dog EXCEPT !.active = TRUE]

HomeFeed(t) ==
    /\ threads[t].call = "send_to_home" /\ threads[t].pc = "start"
    /\ dogs' = [dogs EXCEPT ![1].dog = send_to_home_step(@, 1, clock)]
    /\ threads' = [threads EXCEPT ![t].fed_at = clock, ![t].pc = "fed"]
    /\ UNCHANGED <<clock, reset_function, last, start>>

HomeActive(t) ==
    /\ threads[t].call = "send_to_home" /\ threads[t].pc = "fed"
    /\ dogs' = [dogs EXCEPT ![1].dog = send_to_home_step(@, 2, clock)]
    /\ threads' = [threads EXCEPT ![t].pc = "done"]
    /\ UNCHANGED <<clock, reset_function, last, start>>

\* check: `now = time.time()`
CheckNow(t) ==
    /\ threads[t].call = "check" /\ threads[t].pc = "start"
    /\ threads' = [threads EXCEPT
                      ![t].now = clock, ![t].i = 1, ![t].pc = "loop",
                      ![t].live = { u \in Threads :
                                       /\ threads[u].call = "send_to_home"
                                       /\ threads[u].pc # "done" }]
    /\ UNCHANGED <<dogs, clock, reset_function, last, start>>

\* the `now` check() hands to should_bark when the clock reads clk
sweep_now_resampled(now, clk) == clk
sweep_now(now, clk) == now

\* watchdog.should_bark(now) up to `if self.active:`; it returns None when
\* the flag is not set
CheckActive(t) ==
    LET th == threads[t]
    IN  /\ th.call = "check" /\ th.pc = "loop"
        /\ th.i <= Len(dogs)
        /\ threads' = [threads EXCEPT
               ![t].nows = Append(@, sweep_now(th.now, clock)),
               ![t].late = clock > th.now,
               ![t].evald = Append(@, dogs[th.i].key),
               ![t].pc = IF dogs[th.i].dog.active THEN "compare" ELSE "loop",
               ![t].i = IF dogs[th.i].dog.active THEN @ ELSE @ + 1]
        /\ UNCHANGED <<dogs, clock, reset_function, last, start>>

\* the comparison of should_bark, and what check() does with its result
CheckCompare(t) ==
    LET th == threads[t]
        e == dogs[th.i]
        bark == Truthy(should_bark([e.dog EXCEPT !.active = TRUE],
                                   th.nows[Len(th.nows)]))
    IN  /\ th.call = "check" /\ th.pc = "compare"
        /\ dogs' = IF bark /\ Callable(reset_function)
                   THEN Reset(reset_function, Asked(dogs, th.i, th.now),
                              th.i, clock)
                   ELSE Asked(dogs, th.i, th.now)
        /\ threads' = [threads EXCEPT
               ![t].compared = Append(@, e.key),
               ![t].called = IF bark /\ Callable(reset_function)
                             THEN Append(@, e.key) ELSE @,
               ![t].pc = IF bark THEN "done" ELSE "loop",
               ![t].i = IF bark THEN @ ELSE @ + 1]
        /\ UNCHANGED <<clock, reset_function, last, start>>

\* the for loop is exhausted
CheckEnd(t) ==
    /\ threads[t].call = "check" /\ threads[t].pc = "loop"
    /\ threads[t].i > Len(dogs)
    /\ threads' = [threads EXCEPT ![t].pc = "done"]
    /\ UNCHANGED <<dogs, clock, reset_function, last, start>>

ConcTick ==
    /\ clock < MaxTime
    /\ clock' = clock + 1
    /\ UNCHANGED <<dogs, reset_function, last, threads, start>>

ConcNext ==
    \/ \E t \in Threads :
           \/ StarveLoad(t) \/ StarveStore(t) \/ StarvePass(t)
           \/ FeedCall(t)
           \/ HomeFeed(t) \/ HomeActive(t)
           \/ CheckNow(t) \/ CheckActive(t) \/ CheckCompare(t) \/ CheckEnd(t)
    \/ ConcTick

SpecConc == ConcInit /\ [][ConcNext]_vars

CallsOf(c) == { t \in Threads : threads[t].call = c }
AllDone == \A t \in Threads : threads[t].pc = "done"

\* C12: when the calls made concurrently on an EventDog include no feed and
\* no activation, then once all of them have returned its current_events is
\* what it was before them plus the number of starve() calls.
C12_StarvesAllCounted ==
    (/\ dogs[1].dog.kind = "EventDog"
     /\ AllDone
     /\ CallsOf("feed") = {} /\ CallsOf("send_to_home") = {})
    => dogs[1].dog.current_events
           = start[1].dog.current_events + Cardinality(CallsOf("starve"))

\* C13: every should_bark of one check() is handed the timestamp that
\* check() took before its loop, whatever the clock reads by then, and the
\* watchdogs are asked in insertion order.
C13_SingleNow ==
    \A t \in CallsOf("check") :
        LET th == threads[t]
        IN  /\ \A j \in 1..Len(th.nows) : th.nows[j] = th.now
            /\ th.now <= clock
            /\ th.evald = KeysUpTo(dogs, Len(th.evald))

\* a check() asked its second watchdog after the clock had moved on from
\* the timestamp it took
C13_Witness ==
    \E t \in CallsOf("check") :
        /\ Len(threads[t].nows) = 2
        /\ threads[t].late

\* the first watchdog was inactive and past its timeout or over its budget
\* (of 0 or more) when the calls began, nothing starves it, and check() t
\* took its timestamp before send_to_home() u had returned
ActivatedDuring(u, t) ==
    /\ threads[u].call = "send_to_home"
    /\ threads[t].call = "check"
    /\ u \in threads[t].live
    /\ ~start[1].dog.active
    /\ Unhealthy(start[1].dog, 0)
    /\ IF start[1].dog.kind = "TimeDog" THEN start[1].dog.timeout_s >= 0
       ELSE start[1].dog.max_events >= 0
    /\ CallsOf("starve") = {}

\* C19 as stated: a check() that runs while the watchdog is being activated
\* never hands it to the callback.
C19_ActivateNeverBarks ==
    \A u, t \in Threads :
        ActivatedDuring(u, t)
        => \A j \in 1..Len(threads[t].called) :
               threads[t].called[j] # start[1].key

\* C19: a check() that runs while the watchdog is being activated hands it
\* to the callback only if it is a TimeDog and check()'s timestamp is more
\* than timeout_s after the feed of a send_to_home() that has returned; it
\* never does for an EventDog.
C19_ActivateBarksOnlyAfterTimeout ==
    \A u, t \in Threads :
        (/\ ActivatedDuring(u, t)
         /\ \E j \in 1..Len(threads[t].called) :
                threads[t].called[j] = start[1].key)
        => /\ start[1].dog.kind = "TimeDog"
           /\ \E v \in CallsOf("send_to_home") :
                  /\ threads[v].pc = "done"
                  /\ threads[t].now - threads[v].fed_at
                         > start[1].dog.timeout_s

\* an EventDog over its budget was activated while a check() ran; check()
\* found the flag set, compared the counter and did not call the callback
C19_Witness ==
    \E u, t \in Threads :
        /\ ActivatedDuring(u, t)
        /\ start[1].dog.kind = "EventDog"
        /\ threads[u].pc = "done"
        /\ threads[t].pc = "done"
        /\ Len(threads[t].compared) > 0
        /\ threads[t].compared[1] = start[1].key
        /\ threads[t].called = <<>>

====
